---- MODULE Spec2Model ----
(***************************************************************************)
(* The "Spaghetti Plots" notebook of the advanced-viz cookbook, read as a  *)
(* state machine: the code cells run top to bottom, one statement group    *)
(* (or one loop iteration) per step.  The state is the kernel namespace    *)
(* (the Python names the cells bind) and the pyplot figure state (axes,    *)
(* current axes, the artists, texts, legends and colorbar drawn so far).   *)
(* Library results that depend on downloaded data (the initialization keys *)
(* of forecasts['AP01'], which ensemble members carry a given key, the     *)
(* origin of the time coordinate of the NetCDF file) are inputs.           *)
(***************************************************************************)
EXTENDS Integers, Sequences, FiniteSets, TLC

(***************************************************************************)
(* Bounds of the inputs                                                    *)
(***************************************************************************)
\* largest number of initializations of forecasts['AP01']
MaxInits == 9
\* a forecast cycle may be missing after the k-th initialization, k in 1..MaxSkip
MaxSkip == 2
\* first initialization of the member (year, month, day, hour)
StartTimes == { <<2012, 10, 22, 18>>, <<2012, 10, 30, 12>> }
\* value of ds.time at index 0, in months since January 1958
TimeOrigins == {0, 1, 12}

(***************************************************************************)
(* Program constants                                                       *)
(***************************************************************************)
\* monthly samples of HGT500_MON_1958-1997.nc
NumTimes == 480
\* entries of the lookup table of a registered matplotlib colormap
LutSize == 256
\* hours between two forecast cycles
CycleHours == 6

(***************************************************************************)
(* Text: str(), zfill(), '%d' formatting                                   *)
(***************************************************************************)
DigitChar(d) ==
  CASE d = 0 -> "0" [] d = 1 -> "1" [] d = 2 -> "2" [] d = 3 -> "3"
    [] d = 4 -> "4" [] d = 5 -> "5" [] d = 6 -> "6" [] d = 7 -> "7"
    [] d = 8 -> "8" [] d = 9 -> "9"

RECURSIVE Str(_)
Str(i) == IF i < 10 THEN DigitChar(i) ELSE Str(i \div 10) \o DigitChar(i % 10)

RECURSIVE Zfill(_, _)
Zfill(s, w) == IF Len(s) >= w THEN s ELSE Zfill("0" \o s, w)

(***************************************************************************)
(* datetime: proleptic Gregorian ordinals, strptime, strftime, timedelta   *)
(***************************************************************************)
IsLeap(y) == (y % 4 = 0) /\ ((y % 100 # 0) \/ (y % 400 = 0))

DaysInMonth(y, m) ==
  CASE m \in {1, 3, 5, 7, 8, 10, 12} -> 31
    [] m \in {4, 6, 9, 11} -> 30
    [] OTHER -> IF IsLeap(y) THEN 29 ELSE 28

RECURSIVE DaysBeforeMonth(_, _)
DaysBeforeMonth(y, m) ==
  IF m = 1 THEN 0 ELSE DaysBeforeMonth(y, m - 1) + DaysInMonth(y, m - 1)

DaysBeforeYear(y) ==
  LET p == y - 1 IN p * 365 + (p \div 4) - (p \div 100) + (p \div 400)

ToOrdinal(dt) ==
  DaysBeforeYear(dt.year) + DaysBeforeMonth(dt.year, dt.month) + dt.day

\* a - b for two datetimes, in hours (all keys are whole hours)
TimeDelta(a, b) == (ToOrdinal(a) * 24 + a.hour) - (ToOrdinal(b) * 24 + b.hour)

\* decimal digits of v, most significant first, w digits wide
RECURSIVE Digits(_, _)
Digits(v, w) == IF w = 0 THEN <<>> ELSE Append(Digits(v \div 10, w - 1), v % 10)

RECURSIVE Number(_)
Number(ds) ==
  IF ds = <<>> THEN 0 ELSE Number(SubSeq(ds, 1, Len(ds) - 1)) * 10 + ds[Len(ds)]

\* an initialization key: the ten digits YYYYMMDDHH
KeyOf(dt) ==
  Digits(dt.year, 4) \o Digits(dt.month, 2) \o Digits(dt.day, 2) \o Digits(dt.hour, 2)

\* datetime.datetime.strptime(key, '%Y%m%d%H')
Strptime(key) ==
  [year  |-> Number(SubSeq(key, 1, 4)), month |-> Number(SubSeq(key, 5, 6)),
   day   |-> Number(SubSeq(key, 7, 8)), hour  |-> Number(SubSeq(key, 9, 10))]

\* dt.strftime('%d'): the day of the month, two digits
StrftimeDay(dt) == Zfill(Str(dt.day), 2)

(***************************************************************************)
(* The data the libraries return                                           *)
(***************************************************************************)
NextCycle(dt) ==
  IF dt.hour + CycleHours < 24 THEN [dt EXCEPT !.hour = dt.hour + CycleHours]
  ELSE IF dt.day < DaysInMonth(dt.year, dt.month)
       THEN [dt EXCEPT !.hour = dt.hour + CycleHours - 24, !.day = dt.day + 1]
  ELSE IF dt.month < 12
       THEN [dt EXCEPT !.hour = dt.hour + CycleHours - 24, !.day = 1,
                       !.month = dt.month + 1]
  ELSE [dt EXCEPT !.hour = dt.hour + CycleHours - 24, !.day = 1, !.month = 1,
                  !.year = dt.year + 1]

RECURSIVE CycleAt(_, _)
CycleAt(start, k) == IF k = 0 THEN start ELSE NextCycle(CycleAt(start, k - 1))

Reverse(s) == [j \in 1..Len(s) |-> s[Len(s) + 1 - j]]

\* the first element moved to the end
Rotate(s) == IF s = <<>> THEN s ELSE Append(Tail(s), Head(s))

\* the orders in which the dict may yield its keys
Orders == {"chronological", "reverse", "rotated"}

\* the keys of forecasts['AP01'], in the order the dict yields them: cnt
\* initializations from start, a cycle missing after the skip-th (skip = 0:
\* none missing)
InitKeys(start, cnt, skip, order) ==
  LET dt0   == [year |-> start[1], month |-> start[2], day |-> start[3],
                hour |-> start[4]]
      chron == [j \in 1..cnt |->
                  KeyOf(CycleAt(dt0, IF skip > 0 /\ j > skip THEN j ELSE j - 1))]
  IN CASE order = "chronological" -> chron
       [] order = "reverse" -> Reverse(chron)
       [] order = "rotated" -> Rotate(chron)

KeyLists ==
  { InitKeys(s, cnt, skip, order) :
      s \in StartTimes, cnt \in 1..MaxInits, skip \in 0..MaxSkip, order \in Orders }

\* ds.time.isel(time=k) when the coordinate starts at origin
DsTime(origin, k) == origin + k

(***************************************************************************)
(* matplotlib colormaps.  A colour is <<name, k>>: entry k of the lookup   *)
(* table of the named colormap (k = 0 for a named colour).                 *)
(***************************************************************************)
\* a / b as a fraction with a positive denominator
Frac(a, b) == IF b < 0 THEN <<-a, -b>> ELSE <<a, b>>

\* Colormap.__call__ on the float num/den: the entry of an N-entry table
LutIndex(num, den, N) ==
  IF num < 0 THEN 0
  ELSE IF num * N >= den * N THEN N - 1
  ELSE (num * N) \div den

\* plt.cm.autumn_r(X) for a list X of floats
AutumnR(X) == [j \in 1..Len(X) |-> <<"autumn_r", LutIndex(X[j][1], X[j][2], LutSize)>>]

\* mpl.colors.ListedColormap(colors)
ListedColormap(colors) == [name |-> "listed", N |-> Len(colors), lut |-> colors]

\* plt.get_cmap(name) without the `, n`: the full lookup table
GetCmapFull(name, lutsize) ==
  [name |-> name, N |-> LutSize, lut |-> [j \in 1..LutSize |-> <<name, j - 1>>]]

\* plt.get_cmap(name, lutsize): the colormap resampled to lutsize entries
GetCmap(name, lutsize) ==
  [name |-> name, N |-> lutsize, lut |-> [j \in 1..lutsize |-> <<name, j - 1>>]]

\* the entries counted from one: cmap(k) giving entry k + 1
CmapIntFromOne(cm, k) == IF k + 1 >= cm.N THEN cm.lut[cm.N] ELSE cm.lut[k + 2]

\* cmap(k) for an integer k: entry k, the last entry when k is over the end
CmapInt(cm, k) == IF k >= cm.N THEN cm.lut[cm.N] ELSE cm.lut[k + 1]

\* cmap(X) for a list X of floats
CmapFloats(cm, X) == [j \in 1..Len(X) |-> cm.lut[LutIndex(X[j][1], X[j][2], cm.N) + 1]]

NoCmap == [name |-> "", N |-> 0, lut |-> <<>>]
NoCbar == [axes |-> 0, cmap |-> NoCmap, vmin |-> <<0, 1>>, vmax |-> <<0, 1>>,
           ticks |-> <<>>, ticklabels |-> <<>>]

(***************************************************************************)
(* State                                                                   *)
(***************************************************************************)
VARIABLES
  pc,               \* the statement group that runs next
  it,               \* position of the iterator of the running for loop
  err,              \* <<>>, or <<exception, cell>> once a statement raised
  \* names of the hurricane cells
  forecasts_AP01,   \* the keys of forecasts['AP01'], in dict order
  times, normalized_times, cmap, c,
  GFS_keys, ap, forecast_path, true_path,
  \* names of the contour cells
  origin,           \* ds.time.isel(time=0) of the opened dataset
  n, labels, bounds, year_n, colorlist,
  \* pyplot state
  ax,               \* the name ax: an axes id, 0 while unbound
  gca,              \* pyplot's current axes
  nAxes,            \* axes created so far; ids are 1..nAxes
  cellAxes,         \* history: the axes created at the top of each cell
  artists,          \* lines and contours drawn, in drawing order
  texts, legends, titles, cbar

hurricaneVars == <<forecasts_AP01, times, normalized_times, cmap, c, GFS_keys,
                   ap, forecast_path, true_path>>
contourVars   == <<origin, n, labels, bounds, year_n, colorlist>>
axesVars      == <<ax, gca, nAxes, cellAxes>>
drawnVars     == <<artists, texts, legends, titles, cbar>>
vars == <<pc, it, err, hurricaneVars, contourVars, axesVars, drawnVars>>

Cells == {"A", "B", "C", "D", "E", "F", "G"}

\* linewidth keyword values, in tenths of a point
Thin  == 5
Solid == 10
Thick == 15

\* t: the iteration or time index the trace shows; key: the forecasts key
Artist(cell, kind, axes, color, lw, label, t, key) ==
  [cell |-> cell, kind |-> kind, axes |-> axes, color |-> color, lw |-> lw,
   label |-> label, t |-> t, key |-> key]

Init ==
  /\ pc = "load"
  /\ it = 0
  /\ err = <<>>
  /\ forecasts_AP01 = <<>>
  /\ times = <<>>
  /\ normalized_times = <<>>
  /\ cmap = NoCmap
  /\ c = 0
  /\ GFS_keys = <<>>
  /\ ap = ""
  /\ forecast_path = 0
  /\ true_path = 0
  /\ origin = 0
  /\ n = 0
  /\ labels = <<>>
  /\ bounds = <<>>
  /\ year_n = 0
  /\ colorlist = <<>>
  /\ ax = 0
  /\ gca = 0
  /\ nAxes = 0
  /\ cellAxes = [cl \in Cells |-> 0]
  /\ artists = <<>>
  /\ texts = <<>>
  /\ legends = <<>>
  /\ titles = <<>>
  /\ cbar = NoCbar

(***************************************************************************)
(* Statements shared by the cells                                          *)
(***************************************************************************)
\* the result of plt.axes(...) dropped instead of bound to ax
AxNotRebound(old, created) == old

\* ax = plt.axes(...): the name ax after the call that created axes `created`
AxAfterAxesCall(old, created) == created

\* the exception swallowed, as by try/except around the statement
ExceptionSwallowed(resume) == resume

\* no cell has a try statement: an exception leaves the cell at once and
\* the statement at `resume` is not reached
AfterException(resume) == "raised"

\* plt.axes(projection=...) at the top of cell `cell`: a new axes, which
\* becomes the current axes and is bound to ax
PltAxes(cell) ==
  /\ nAxes' = nAxes + 1
  /\ gca' = nAxes + 1
  /\ ax' = AxAfterAxesCall(ax, nAxes + 1)
  /\ cellAxes' = IF cell \in Cells THEN [cellAxes EXCEPT ![cell] = nAxes + 1]
                 ELSE cellAxes

\* plt.plot(...) draws on the current axes
PltPlot(cell, kind, color, lw, label, t, key) ==
  artists' = Append(artists, Artist(cell, kind, gca, color, lw, label, t, key))

\* range(start, stop, step) as a list
Range(start, stop, step) ==
  [j \in 1..(IF stop > start THEN (stop - start + step - 1) \div step ELSE 0) |->
     start + (j - 1) * step]

\* a legend that lists the forecast line only
PltLegendForecastOnly(cell, handles, names) ==
  [axes |-> gca, cell |-> cell, handles |-> <<handles[2]>>, labels |-> <<names[2]>>]

\* plt.legend(handles, labels) on the current axes
PltLegend(cell, handles, names) ==
  [axes |-> gca, cell |-> cell, handles |-> handles, labels |-> names]

(***************************************************************************)
(* Reading the hurricane data (cells at lines 96-149)                      *)
(***************************************************************************)
GetForecasts ==
  /\ pc = "load"
  /\ \E keys \in KeyLists : forecasts_AP01' = keys
  /\ pc' = "grid"
  /\ UNCHANGED <<it, err, times, normalized_times, cmap, c, GFS_keys, ap,
                 forecast_path, true_path, contourVars, axesVars, drawnVars>>

\* the cell that only sets up the PlateCarree axes (lines 174-184)
GridCell ==
  /\ pc = "grid"
  /\ PltAxes("grid")
  /\ pc' = "A_axes"
  /\ UNCHANGED <<it, err, hurricaneVars, contourVars, drawnVars>>

(***************************************************************************)
(* Cell A: spaghetti plot of one ensemble member (lines 202-234)           *)
(***************************************************************************)
A_Axes ==
  /\ pc = "A_axes"
  /\ PltAxes("A")
  /\ it' = 0
  /\ pc' = "A_plot"
  /\ UNCHANGED <<err, hurricaneVars, contourVars, drawnVars>>

\* one iteration of `for i in forecasts_AP01`
A_Plot ==
  /\ pc = "A_plot"
  /\ it < Len(forecasts_AP01)
  /\ PltPlot("A", "forecast", <<"cornflowerblue", 0>>, Thin, "", it + 1, "AP01")
  /\ forecast_path' = Len(artists) + 1
  /\ it' = it + 1
  /\ pc' = IF it + 1 = Len(forecasts_AP01) THEN "A_true" ELSE "A_plot"
  /\ UNCHANGED <<err, forecasts_AP01, times, normalized_times, cmap, c, GFS_keys,
                 ap, true_path, contourVars, axesVars, texts, legends, titles, cbar>>

A_TruePath ==
  /\ pc = "A_true"
  /\ PltPlot("A", "true", <<"k", 0>>, Solid, "", 0, "")
  /\ true_path' = Len(artists) + 1
  /\ pc' = "A_legend"
  /\ UNCHANGED <<it, err, forecasts_AP01, times, normalized_times, cmap, c,
                 GFS_keys, ap, forecast_path, contourVars, axesVars, texts,
                 legends, titles, cbar>>

A_Legend ==
  /\ pc = "A_legend"
  /\ legends' = Append(legends, PltLegend("A", <<true_path, forecast_path>>,
                                           <<"True Path", "GFS AP01 Forecasts">>))
  /\ titles' = Append(titles, [axes |-> gca, cell |-> "A"])
  /\ pc' = "B_axes"
  /\ UNCHANGED <<it, err, hurricaneVars, contourVars, axesVars, artists, texts, cbar>>

(***************************************************************************)
(* Cell B: one member with temporal colormapping (lines 265-318)           *)
(***************************************************************************)
B_Axes ==
  /\ pc = "B_axes"
  /\ PltAxes("B")
  /\ pc' = "B_times"
  /\ UNCHANGED <<it, err, hurricaneVars, contourVars, drawnVars>>

\* [strptime(i, format) for i in list(forecasts_AP01.keys())]
Times(keys) == [j \in 1..Len(keys) |-> Strptime(keys[j])]

\* the time left to the last key instead of the time since the first
NormalizedTimesToEnd(ts) ==
  [j \in 1..Len(ts) |->
     Frac(TimeDelta(ts[Len(ts)], ts[j]), TimeDelta(ts[Len(ts)], ts[1]))]

\* [(i - times[0]) / (times[-1] - times[0]) for i in times]
NormalizedTimes(ts) ==
  [j \in 1..Len(ts) |->
     Frac(TimeDelta(ts[j], ts[1]), TimeDelta(ts[Len(ts)], ts[1]))]

\* times and normalized_times; the division raises when the first and the
\* last key name the same time
B_Times ==
  /\ pc = "B_times"
  /\ times' = Times(forecasts_AP01)
  /\ IF TimeDelta(times'[Len(times')], times'[1]) = 0
     THEN /\ err' = <<"ZeroDivisionError", "B">>
          /\ pc' = AfterException("B_cmap")
          /\ UNCHANGED normalized_times
     ELSE /\ normalized_times' = NormalizedTimes(times')
          /\ pc' = "B_cmap"
          /\ UNCHANGED err
  /\ UNCHANGED <<it, forecasts_AP01, cmap, c, GFS_keys, ap, forecast_path,
                 true_path, contourVars, axesVars, drawnVars>>

B_Cmap ==
  /\ pc = "B_cmap"
  /\ cmap' = ListedColormap(AutumnR(normalized_times))
  /\ c' = 0
  /\ it' = 0
  /\ pc' = "B_plot"
  /\ UNCHANGED <<err, forecasts_AP01, times, normalized_times, GFS_keys, ap,
                 forecast_path, true_path, contourVars, axesVars, drawnVars>>

\* one iteration of `for i in forecasts_AP01`, colour cmap(c), then c += 1
B_Plot ==
  /\ pc = "B_plot"
  /\ it < Len(forecasts_AP01)
  /\ PltPlot("B", "forecast", CmapInt(cmap, c), Thin, "", it + 1, "AP01")
  /\ c' = c + 1
  /\ it' = it + 1
  /\ pc' = IF it + 1 = Len(forecasts_AP01) THEN "B_true" ELSE "B_plot"
  /\ UNCHANGED <<err, forecasts_AP01, times, normalized_times, cmap, GFS_keys,
                 ap, forecast_path, true_path, contourVars, axesVars, texts,
                 legends, titles, cbar>>

\* the handles plt.legend() finds: the labelled artists of the axes
LabelledOn(arts, axes) ==
  SelectSeq([j \in 1..Len(arts) |-> j],
            LAMBDA j : arts[j].axes = axes /\ arts[j].label # "")

\* the true path with label='True Path', plt.legend(), plt.title(...)
B_TruePath ==
  /\ pc = "B_true"
  /\ PltPlot("B", "true", <<"red", 0>>, Solid, "True Path", 0, "")
  /\ true_path' = Len(artists) + 1
  /\ legends' = Append(legends,
                  [axes |-> gca, cell |-> "B",
                   handles |-> LabelledOn(artists', gca),
                   labels |-> [j \in 1..Len(LabelledOn(artists', gca)) |->
                                 artists'[LabelledOn(artists', gca)[j]].label]])
  /\ titles' = Append(titles, [axes |-> gca, cell |-> "B"])
  /\ pc' = "B_cbar"
  /\ UNCHANGED <<it, err, forecasts_AP01, times, normalized_times, cmap, c,
                 GFS_keys, ap, forecast_path, contourVars, axesVars, texts, cbar>>

\* plt.colorbar(ScalarMappable(cmap=cmap), ax=ax, ...): the colorbar gets an
\* axes of its own; the default norm spans [0, 1]
B_Colorbar ==
  /\ pc = "B_cbar"
  /\ cbar' = [axes |-> nAxes + 1, cmap |-> cmap, vmin |-> <<0, 1>>,
              vmax |-> <<1, 1>>, ticks |-> <<>>, ticklabels |-> <<>>]
  /\ nAxes' = nAxes + 1
  /\ pc' = "B_ticks"
  /\ UNCHANGED <<it, err, hurricaneVars, contourVars, ax, gca, cellAxes, artists,
                 texts, legends, titles>>

\* every 3rd initialization: range(0, len(times), 3)
TickIndicesEveryThird(len) == Range(0, len, 3)

\* tick_indices = range(0, len(times), 4)
TickIndices(len) == Range(0, len, 4)

B_Ticks ==
  /\ pc = "B_ticks"
  /\ LET ti == TickIndices(Len(times))
     IN cbar' = [cbar EXCEPT
                   !.ticks = [j \in 1..Len(ti) |-> normalized_times[ti[j] + 1]],
                   !.ticklabels = [j \in 1..Len(ti) |-> StrftimeDay(times[ti[j] + 1])]]
  /\ pc' = "C_axes"
  /\ UNCHANGED <<it, err, hurricaneVars, contourVars, axesVars, artists, texts,
                 legends, titles>>

(***************************************************************************)
(* Cell C: all ensemble members at one initialization (lines 350-384)      *)
(***************************************************************************)
\* the keys counted from 0: range(0, 20)
GFSKeyListFromZero ==
  LET r == Range(0, 20, 1) IN [j \in 1..Len(r) |-> "AP" \o Zfill(Str(r[j]), 2)]

\* the keys from 0 to 20: range(0, 21)
GFSKeyListZeroToTwenty ==
  LET r == Range(0, 21, 1) IN [j \in 1..Len(r) |-> "AP" \o Zfill(Str(r[j]), 2)]

\* ['AP' + str(i).zfill(2) for i in range(1, 21)]
GFSKeyList ==
  LET r == Range(1, 21, 1) IN [j \in 1..Len(r) |-> "AP" \o Zfill(Str(r[j]), 2)]

\* the iterations of `for i in range(20)`
NumMembers == 20

\* what the two lookups of an iteration find in forecasts
LookupOutcomes == {"ok", "no_member", "no_time"}

C_Axes ==
  /\ pc = "C_axes"
  /\ GFS_keys' = GFSKeyList
  /\ PltAxes("C")
  /\ it' = 0
  /\ pc' = "C_plot"
  /\ UNCHANGED <<err, forecasts_AP01, times, normalized_times, cmap, c, ap,
                 forecast_path, true_path, contourVars, drawnVars>>

\* one iteration: ap = forecasts[GFS_keys[i]], then plt.plot(ap[time][...]);
\* either subscript raises KeyError when the key is not in the dict
C_Plot ==
  /\ pc = "C_plot"
  /\ it < NumMembers
  /\ \E found \in LookupOutcomes :
       IF it >= Len(GFS_keys)
       THEN /\ err' = <<"IndexError", "C">>
            /\ pc' = AfterException("C_plot")
            /\ UNCHANGED <<ap, forecast_path, artists, it>>
       ELSE IF found = "no_member"
       THEN /\ err' = <<"KeyError", "C">>
            /\ pc' = AfterException("C_plot")
            /\ UNCHANGED <<ap, forecast_path, artists, it>>
       ELSE IF found = "no_time"
       THEN /\ ap' = GFS_keys[it + 1]
            /\ err' = <<"KeyError", "C">>
            /\ pc' = AfterException("C_plot")
            /\ UNCHANGED <<forecast_path, artists, it>>
       ELSE /\ ap' = GFS_keys[it + 1]
            /\ PltPlot("C", "forecast", <<"cornflowerblue", 0>>, Thin, "",
                       it + 1, GFS_keys[it + 1])
            /\ forecast_path' = Len(artists) + 1
            /\ it' = it + 1
            /\ pc' = IF it + 1 = NumMembers THEN "C_true" ELSE "C_plot"
            /\ UNCHANGED err
  /\ UNCHANGED <<forecasts_AP01, times, normalized_times, cmap, c, GFS_keys,
                 true_path, contourVars, axesVars, texts, legends, titles, cbar>>

C_TruePath ==
  /\ pc = "C_true"
  /\ PltPlot("C", "true", <<"k", 0>>, Solid, "", 0, "")
  /\ true_path' = Len(artists) + 1
  /\ pc' = "C_legend"
  /\ UNCHANGED <<it, err, forecasts_AP01, times, normalized_times, cmap, c,
                 GFS_keys, ap, forecast_path, contourVars, axesVars, texts,
                 legends, titles, cbar>>

C_Legend ==
  /\ pc = "C_legend"
  /\ legends' = Append(legends, PltLegend("C", <<true_path, forecast_path>>,
                                           <<"True Path", "AP01 - AP20">>))
  /\ titles' = Append(titles, [axes |-> gca, cell |-> "C"])
  /\ pc' = "open"
  /\ UNCHANGED <<it, err, hurricaneVars, contourVars, axesVars, artists, texts, cbar>>

(***************************************************************************)
(* Reading the geopotential height data (lines 429-432) and the cell that  *)
(* only sets up the polar axes (lines 450-463)                             *)
(***************************************************************************)
OpenDataset ==
  /\ pc = "open"
  /\ \E o \in TimeOrigins : origin' = o
  /\ pc' = "polar"
  /\ UNCHANGED <<it, err, hurricaneVars, n, labels, bounds, year_n, colorlist,
                 axesVars, drawnVars>>

PolarCell ==
  /\ pc = "polar"
  /\ PltAxes("polar")
  /\ pc' = "D_axes"
  /\ UNCHANGED <<it, err, hurricaneVars, contourVars, drawnVars>>

\* ds.HGT.isel(time=tindex) and slon.plot.contour(ax=ax, ...): one contour on
\* the axes the name ax is bound to; isel raises past the end of the data
Contour(cell, tindex, color, lw, resume, next) ==
  IF tindex >= NumTimes
  THEN /\ err' = <<"IndexError", cell>>
       /\ pc' = AfterException(resume)
       /\ UNCHANGED <<artists, it>>
  ELSE /\ artists' = Append(artists,
                        Artist(cell, "contour", ax, color, lw, "", tindex, ""))
       /\ it' = it + 1
       /\ pc' = next
       /\ UNCHANGED err

(***************************************************************************)
(* Cell D: initial contour spaghetti plot (lines 483-515)                  *)
(***************************************************************************)
\* n = 19
NumContours == 19

D_Axes ==
  /\ pc = "D_axes"
  /\ PltAxes("D")
  /\ n' = NumContours
  /\ it' = 0
  /\ pc' = "D_contour"
  /\ UNCHANGED <<err, hurricaneVars, origin, labels, bounds, year_n, colorlist,
                 drawnVars>>

\* one iteration of `for x in range(n)`, at time index 12*x
D_Contour ==
  /\ pc = "D_contour"
  /\ it < n
  /\ Contour("D", 12 * it, <<"blue", 0>>, Thin, "D_contour",
             IF it + 1 = n THEN "E_axes" ELSE "D_contour")
  /\ UNCHANGED <<hurricaneVars, contourVars, axesVars, texts, legends, titles, cbar>>

(***************************************************************************)
(* The directional labels shared by cells E, F and G                       *)
(* (lines 535-593, 654-706, 771-829)                                       *)
(***************************************************************************)
LabelCells == {"E", "F", "G"}

\* etick + wtick for ticks = np.arange(0, 210, 30)
DirectionLabels ==
  LET ticks == Range(0, 210, 30)
      inner == SelectSeq(ticks, LAMBDA t : (t # 0) /\ (t # 180))
      etick == <<"0">> \o [j \in 1..Len(inner) |-> Str(inner[j]) \o "E"] \o <<"180">>
      wtick == [j \in 1..Len(inner) |-> Str(inner[j]) \o "W"]
  IN etick \o wtick

\* xticks = np.arange(0, 360, 30)
XTicks == Range(0, 360, 30)

\* yticks = np.full_like(xticks, -5)
YTick == -5

Min(a, b) == IF a < b THEN a ELSE b

AfterText(cell) ==
  CASE cell = "E" -> "E_contour" [] cell = "F" -> "F_cmap" [] cell = "G" -> "G_first"

LabelAxes(cell) ==
  /\ pc = cell \o "_axes"
  /\ PltAxes(cell)
  /\ pc' = cell \o "_labels"
  /\ UNCHANGED <<it, err, hurricaneVars, contourVars, drawnVars>>

Labels(cell) ==
  /\ pc = cell \o "_labels"
  /\ labels' = DirectionLabels
  /\ it' = 0
  /\ pc' = cell \o "_text"
  /\ UNCHANGED <<err, hurricaneVars, origin, n, bounds, year_n, colorlist,
                 axesVars, drawnVars>>

\* one iteration of `for xtick, ytick, label in zip(xticks, yticks, labels)`
Text(cell) ==
  /\ pc = cell \o "_text"
  /\ it < Min(Len(XTicks), Len(labels))
  /\ texts' = Append(texts,
                [cell |-> cell, axes |-> ax, x |-> XTicks[it + 1], y |-> YTick,
                 s |-> labels[it + 1],
                 va |-> IF labels[it + 1] = "180" THEN "top"
                        ELSE IF labels[it + 1] = "0" THEN "bottom" ELSE "center"])
  /\ it' = IF it + 1 = Min(Len(XTicks), Len(labels)) THEN 0 ELSE it + 1
  /\ pc' = IF it + 1 = Min(Len(XTicks), Len(labels)) THEN AfterText(cell)
           ELSE cell \o "_text"
  /\ UNCHANGED <<err, hurricaneVars, contourVars, axesVars, artists, legends,
                 titles, cbar>>

\* gv.set_titles_and_labels(ax, ...) and plt.tight_layout()
Titles(cell, next) ==
  /\ pc = cell \o "_titles"
  /\ titles' = Append(titles, [axes |-> ax, cell |-> cell])
  /\ pc' = next
  /\ UNCHANGED <<it, err, hurricaneVars, contourVars, axesVars, artists, texts,
                 legends, cbar>>

(***************************************************************************)
(* Cell E: directional labels (lines 535-620)                              *)
(***************************************************************************)
\* for x in range(19)
NumLabelledContours == 19

\* one iteration, at time index 12*x + 1
E_Contour ==
  /\ pc = "E_contour"
  /\ it < NumLabelledContours
  /\ Contour("E", 12 * it + 1, <<"blue", 0>>, Thin, "E_contour",
             IF it + 1 = NumLabelledContours THEN "E_titles" ELSE "E_contour")
  /\ UNCHANGED <<hurricaneVars, contourVars, axesVars, texts, legends, titles, cbar>>

E_Titles == Titles("E", "F_axes")

(***************************************************************************)
(* Cell F: temporal colorbar (lines 654-753)                               *)
(***************************************************************************)
\* np.linspace(0, 1, num)
Linspace01(num) == [j \in 1..num |-> IF num = 1 THEN <<0, 1>> ELSE <<j - 1, num - 1>>]

\* year_0 = 1958
Year0 == 1958

\* n = 19; cmap = plt.get_cmap('winter_r', n); bounds = np.linspace(0, 1, n)
F_Cmap ==
  /\ pc = "F_cmap"
  /\ n' = NumContours
  /\ cmap' = GetCmap("winter_r", NumContours)
  /\ bounds' = Linspace01(NumContours)
  /\ it' = 0
  /\ pc' = "F_contour"
  /\ UNCHANGED <<err, forecasts_AP01, times, normalized_times, c, GFS_keys, ap,
                 forecast_path, true_path, origin, labels, year_n, colorlist,
                 axesVars, drawnVars>>

\* one iteration of `for x in range(n)`: colors=[cmap(bounds)[x]]
F_Contour ==
  /\ pc = "F_contour"
  /\ it < n
  /\ Contour("F", 12 * it, CmapFloats(cmap, bounds)[it + 1], Thin, "F_contour",
             IF it + 1 = n THEN "F_cbar" ELSE "F_contour")
  /\ UNCHANGED <<hurricaneVars, contourVars, axesVars, texts, legends, titles, cbar>>

\* the year of the last plotted index: ds.time.isel(time=12*(n-1))
YearNAtLastIndex(org, num) == (DsTime(org, 12 * (num - 1)) \div 12) + Year0

\* (ds.time.isel(time=12*n) / 12).astype(int) + year_0
YearN(org, num) == (DsTime(org, 12 * num) \div 12) + Year0

\* year_n, norm = plt.Normalize(vmin=year_0, vmax=year_n) and plt.colorbar(...)
F_Colorbar ==
  /\ pc = "F_cbar"
  /\ IF 12 * n >= NumTimes
     THEN /\ err' = <<"IndexError", "F">>
          /\ pc' = AfterException("F_cbar")
          /\ UNCHANGED <<year_n, cbar, nAxes>>
     ELSE /\ year_n' = YearN(origin, n)
          /\ cbar' = [axes |-> nAxes + 1, cmap |-> cmap, vmin |-> <<Year0, 1>>,
                      vmax |-> <<year_n', 1>>, ticks |-> <<>>, ticklabels |-> <<>>]
          /\ nAxes' = nAxes + 1
          /\ pc' = "F_ticks"
          /\ UNCHANGED err
  /\ UNCHANGED <<it, hurricaneVars, origin, n, labels, bounds, colorlist, ax, gca,
                 cellAxes, artists, texts, legends, titles>>

\* the ticks left at the whole years: np.arange(year_0, year_n)
TickLocationsAtYears(y0, yn) ==
  [j \in 1..(IF yn > y0 THEN yn - y0 ELSE 0) |-> <<2 * y0 + 2 * (j - 1), 2>>]

\* np.arange(year_0 + 0.5, year_n): ceil(stop - start) values one apart
TickLocations(y0, yn) ==
  [j \in 1..(IF 2 * yn > 2 * y0 + 1 THEN (2 * yn - (2 * y0 + 1) + 1) \div 2 ELSE 0) |->
     <<2 * y0 + 1 + 2 * (j - 1), 2>>]

\* np.arange(year_0, year_n), as the text the colorbar shows
TickLabels(y0, yn) ==
  LET r == Range(y0, yn, 1) IN [j \in 1..Len(r) |-> Str(r[j])]

\* cbar.set_ticks(...), cbar.set_ticklabels(...)
F_Ticks ==
  /\ pc = "F_ticks"
  /\ cbar' = [cbar EXCEPT !.ticks = TickLocations(Year0, year_n),
                          !.ticklabels = TickLabels(Year0, year_n)]
  /\ pc' = "F_titles"
  /\ UNCHANGED <<it, err, hurricaneVars, contourVars, axesVars, artists, texts,
                 legends, titles>>

F_Titles == Titles("F", "G_axes")

(***************************************************************************)
(* Cell G: hand-picked colours (lines 771-879)                             *)
(***************************************************************************)
\* the contour of time index 0, thicker and black
G_First ==
  /\ pc = "G_first"
  /\ Contour("G", 0, <<"black", 0>>, Thick, "G_first", "G_colorlist")
  /\ UNCHANGED <<hurricaneVars, contourVars, axesVars, texts, legends, titles, cbar>>

ColorList ==
  << "crimson", "green", "blue", "yellow", "cyan", "hotpink", "crimson",
     "skyblue", "navy", "lightyellow", "mediumorchid", "orange", "slateblue",
     "palegreen", "magenta", "springgreen", "pink", "forestgreen", "violet" >>

\* for x in range(18)
NumPickedContours == 18

G_Colorlist ==
  /\ pc = "G_colorlist"
  /\ colorlist' = ColorList
  /\ it' = 0
  /\ pc' = "G_contour"
  /\ UNCHANGED <<err, hurricaneVars, origin, n, labels, bounds, year_n, axesVars,
                 drawnVars>>

\* one iteration, at time index 12*x + 1, colors=colorlist[x]
G_Contour ==
  /\ pc = "G_contour"
  /\ it < NumPickedContours
  /\ IF it >= Len(colorlist)
     THEN /\ err' = <<"IndexError", "G">>
          /\ pc' = AfterException("G_contour")
          /\ UNCHANGED <<artists, it>>
     ELSE Contour("G", 12 * it + 1, <<colorlist[it + 1], 0>>, Thin, "G_contour",
                  IF it + 1 = NumPickedContours THEN "G_titles" ELSE "G_contour")
  /\ UNCHANGED <<hurricaneVars, contourVars, axesVars, texts, legends, titles, cbar>>

G_Titles == Titles("G", "done")

Next ==
  \/ GetForecasts \/ GridCell
  \/ A_Axes \/ A_Plot \/ A_TruePath \/ A_Legend
  \/ B_Axes \/ B_Times \/ B_Cmap \/ B_Plot \/ B_TruePath \/ B_Colorbar \/ B_Ticks
  \/ C_Axes \/ C_Plot \/ C_TruePath \/ C_Legend
  \/ OpenDataset \/ PolarCell
  \/ D_Axes \/ D_Contour
  \/ \E cell \in LabelCells : LabelAxes(cell)
  \/ \E cell \in LabelCells : Labels(cell)
  \/ \E cell \in LabelCells : Text(cell)
  \/ E_Contour \/ E_Titles
  \/ F_Cmap \/ F_Contour \/ F_Colorbar \/ F_Ticks \/ F_Titles
  \/ G_First \/ G_Colorlist \/ G_Contour \/ G_Titles

Spec == Init /\ [][Next]_vars

(***************************************************************************)
(* Positions in the notebook                                               *)
(***************************************************************************)
PcOrder ==
  << "load", "grid", "A_axes", "A_plot", "A_true", "A_legend",
     "B_axes", "B_times", "B_cmap", "B_plot", "B_true", "B_cbar", "B_ticks",
     "C_axes", "C_plot", "C_true", "C_legend", "open", "polar",
     "D_axes", "D_contour",
     "E_axes", "E_labels", "E_text", "E_contour", "E_titles",
     "F_axes", "F_labels", "F_text", "F_cmap", "F_contour", "F_cbar", "F_ticks",
     "F_titles",
     "G_axes", "G_labels", "G_text", "G_first", "G_colorlist", "G_contour",
     "G_titles", "done" >>

Rank(p) ==
  IF \E j \in 1..Len(PcOrder) : PcOrder[j] = p
  THEN CHOOSE j \in 1..Len(PcOrder) : PcOrder[j] = p
  ELSE 0

\* statement groups before this position have run to completion; a cell
\* that raised counts from its top
Position == IF pc = "raised" THEN Rank(err[2] \o "_axes") ELSE Rank(pc)

Past(p) == Position > Rank(p)

ArtistsOf(cell, kind) ==
  SelectSeq(artists, LAMBDA a : a.cell = cell /\ a.kind = kind)

LoopPcs ==
  {"A_plot", "B_plot", "C_plot", "D_contour", "E_contour", "F_contour", "G_contour"}

(***************************************************************************)
(* Colorbar geometry used by the properties                                *)
(***************************************************************************)
\* the colour a colorbar shows at the value v: its norm, then its colormap
BoxColorAt(cb, v) ==
  cb.cmap.lut[LutIndex(v[1] - cb.vmin[1] * v[2],
                       (cb.vmax[1] - cb.vmin[1]) * v[2], cb.cmap.N) + 1]

\* v is the midpoint of box k (from 0) of the N equal boxes of the colorbar
IsBoxMidpoint(cb, k, v) ==
  v[1] * 2 * cb.cmap.N =
    v[2] * (2 * cb.cmap.N * cb.vmin[1] + (2 * k + 1) * (cb.vmax[1] - cb.vmin[1]))

YearLabels ==
  << "1958", "1959", "1960", "1961", "1962", "1963", "1964", "1965", "1966",
     "1967", "1968", "1969", "1970", "1971", "1972", "1973", "1974", "1975",
     "1976" >>

\* time index 12*n is 12*n months after 1958
TimeInMonthsSince1958 == DsTime(origin, 12 * n) = 12 * n

(***************************************************************************)
(* C1: in the colorbar cell, with year_n = year_0 + n, the colorbar has    *)
(* exactly n ticks and n tick labels; tick k sits at year_0 + k + 0.5, the *)
(* midpoint of the k-th of the n colour boxes over [year_0, year_n], and   *)
(* its label is the whole year year_0 + k.                                 *)
(***************************************************************************)
C1_TicksAtBoxMidpoints ==
  (Past("F_ticks") /\ TimeInMonthsSince1958) =>
    /\ year_n = Year0 + n
    /\ Len(cbar.ticks) = n
    /\ Len(cbar.ticklabels) = n
    /\ \A k \in 0..(n - 1) :
         /\ cbar.ticks[k + 1] = <<2 * (1958 + k) + 1, 2>>
         /\ IsBoxMidpoint(cbar, k, cbar.ticks[k + 1])
         /\ cbar.ticklabels[k + 1] = YearLabels[k + 1]

C1_Witness ==
  /\ pc = "F_titles"
  /\ TimeInMonthsSince1958
  /\ n = 19
  /\ Len(cbar.ticks) = 19

(***************************************************************************)
(* C2: every directional label names the longitude it is drawn at: '0' at  *)
(* 0, '<x>E' for 0 < x < 180, '180' at 180, '<360 - x>W' for 180 < x < 360.*)
(***************************************************************************)
LongitudeName(x) ==
  IF x = 0 THEN "0"
  ELSE IF x < 180 THEN Str(x) \o "E"
  ELSE IF x = 180 THEN "180"
  ELSE Str(360 - x) \o "W"

C2_LabelNamesLongitude ==
  \A j \in 1..Len(texts) : texts[j].s = LongitudeName(texts[j].x)

(***************************************************************************)
(* C3: in every spaghetti-plot cell all traces are on the one axes created *)
(* at the top of the cell; no loop iteration creates an axes or rebinds ax.*)
(***************************************************************************)
TracesOnCellAxes ==
  \A j \in 1..Len(artists) :
    /\ artists[j].axes # 0
    /\ artists[j].axes = cellAxes[artists[j].cell]

IterationKeepsAxes ==
  (pc \in LoopPcs) => (ax' = ax /\ gca' = gca /\ nAxes' = nAxes /\ cellAxes' = cellAxes)

C3_OneAxesPerPlot == [] TracesOnCellAxes /\ [][IterationKeepsAxes]_vars

C3_Witness ==
  /\ pc = "G_titles"
  /\ Len(ArtistsOf("A", "forecast")) >= 3
  /\ Len(ArtistsOf("A", "true")) = 1
  /\ Len(ArtistsOf("G", "contour")) = 19
  /\ Cardinality({cellAxes[cl] : cl \in Cells}) = 7

(***************************************************************************)
(* C4: the members plotted by the all-members cell are exactly AP01..AP20: *)
(* GFS_keys holds these 20 distinct keys and the loop reads each once.     *)
(***************************************************************************)
MemberKeys ==
  << "AP01", "AP02", "AP03", "AP04", "AP05", "AP06", "AP07", "AP08", "AP09",
     "AP10", "AP11", "AP12", "AP13", "AP14", "AP15", "AP16", "AP17", "AP18",
     "AP19", "AP20" >>

Chronological(keys) ==
  \A j \in 1..(Len(keys) - 1) : Number(keys[j]) <= Number(keys[j + 1])

TwoDistinct(keys) == \E j, k \in 1..Len(keys) : keys[j] # keys[k]

FracLeq(a, b) == a[1] * b[2] <= b[1] * a[2]

C5_NormalizedTimesMonotone ==
  (Past("B_times") /\ Chronological(forecasts_AP01) /\ TwoDistinct(forecasts_AP01)) =>
    LET nt == normalized_times IN
    /\ Len(nt) = Len(forecasts_AP01)
    /\ nt[1][1] = 0
    /\ nt[Len(nt)][1] = nt[Len(nt)][2]
    /\ \A j \in 1..Len(nt) : nt[j][2] > 0 /\ 0 <= nt[j][1] /\ nt[j][1] <= nt[j][2]
    /\ \A j \in 1..(Len(nt) - 1) : FracLeq(nt[j], nt[j + 1])
    /\ (Past("B_cmap") /\ cmap.name = "listed") =>
         \A j \in 1..(cmap.N - 1) : cmap.lut[j][2] <= cmap.lut[j + 1][2]

C5_Witness ==
  /\ pc = "B_cmap"
  /\ Chronological(forecasts_AP01)
  /\ Len(normalized_times) >= 4
  /\ \E j \in 1..Len(normalized_times) :
       0 < normalized_times[j][1] /\ normalized_times[j][1] < normalized_times[j][2]

(***************************************************************************)
(* C6 as stated: the colorbar ticks of the temporal hurricane plot are at  *)
(* every 4th initialization, as many as the tick labels, and this is once  *)
(* a day: consecutive ticks are 24 hours apart and their '%d' labels are   *)
(* consecutive days of the month.                                          *)
(***************************************************************************)
HurricaneTicksSet == Past("B_ticks") /\ Position <= Rank("F_cbar")

\* the DD digits of a key, as text
DayDigits(key) == DigitChar(key[7]) \o DigitChar(key[8])

DayNumber(key) == key[7] * 10 + key[8]

NumTicks == (Len(times) + 3) \div 4

\* index (from 1) of the initialization of tick j (from 1)
TickInit(j) == 4 * (j - 1) + 1

TicksAtEveryFourth ==
  /\ Len(cbar.ticks) = NumTicks
  /\ Len(cbar.ticklabels) = NumTicks
  /\ \A j \in 1..NumTicks :
       /\ cbar.ticks[j] = normalized_times[TickInit(j)]
       /\ cbar.ticklabels[j] = DayDigits(forecasts_AP01[TickInit(j)])

C6_TicksOnceADay ==
  HurricaneTicksSet =>
    /\ TicksAtEveryFourth
    /\ \A j \in 1..(NumTicks - 1) :
         /\ TimeDelta(times[TickInit(j + 1)], times[TickInit(j)]) = 24
         /\ DayNumber(forecasts_AP01[TickInit(j + 1)]) =
              DayNumber(forecasts_AP01[TickInit(j)]) + 1

(***************************************************************************)
(* C6 amended: the ticks are at every 4th initialization and as many as    *)
(* the tick labels; when consecutive keys are initializations 6 hours      *)
(* apart in chronological order, consecutive ticks are 24 hours apart and  *)
(* their labels are the days of consecutive calendar days, consecutive     *)
(* numbers while the month does not change.                                *)
(***************************************************************************)
SixHourly(keys) ==
  \A j \in 1..(Len(keys) - 1) : keys[j + 1] = KeyOf(NextCycle(Strptime(keys[j])))

C6_TicksOnceADayWhenSixHourly ==
  HurricaneTicksSet =>
    /\ TicksAtEveryFourth
    /\ SixHourly(forecasts_AP01) =>
         \A j \in 1..(NumTicks - 1) :
           LET a == forecasts_AP01[TickInit(j)]
               b == forecasts_AP01[TickInit(j + 1)]
           IN /\ TimeDelta(times[TickInit(j + 1)], times[TickInit(j)]) = 24
              /\ ToOrdinal(times[TickInit(j + 1)]) = ToOrdinal(times[TickInit(j)]) + 1
              /\ SubSeq(a, 1, 6) = SubSeq(b, 1, 6) => DayNumber(b) = DayNumber(a) + 1

C6_Witness ==
  /\ pc = "C_axes"
  /\ SixHourly(forecasts_AP01)
  /\ Len(times) = 9
  /\ Len(cbar.ticks) = 3
  /\ cbar.ticklabels = <<"22", "23", "24">>

(***************************************************************************)
(* C7: in the colorbar cell the contour of timestep 12*x is drawn in       *)
(* colour x of the n-colour map, which is the colour of the colorbar box   *)
(* labelled with the year 1958 + x; no two contours share a colour.        *)
(***************************************************************************)
C7_ContourColourIsItsYearBox ==
  LET drawn == ArtistsOf("F", "contour") IN
  /\ \A j \in 1..Len(drawn) :
       /\ drawn[j].t = 12 * (j - 1)
       /\ drawn[j].color = <<"winter_r", j - 1>>
  /\ \A j, k \in 1..Len(drawn) : j # k => drawn[j].color # drawn[k].color
  /\ Past("F_contour") => Len(drawn) = 19
  /\ (Past("F_ticks") /\ TimeInMonthsSince1958) =>
       \A x \in 0..(n - 1) :
         \E j \in 1..Len(cbar.ticklabels) :
           /\ cbar.ticklabels[j] = YearLabels[x + 1]
           /\ BoxColorAt(cbar, cbar.ticks[j]) = drawn[x + 1].color

C7_Witness ==
  /\ pc = "F_titles"
  /\ TimeInMonthsSince1958
  /\ Len(ArtistsOf("F", "contour")) = 19
  /\ ArtistsOf("F", "contour")[19].color = <<"winter_r", 18>>

(***************************************************************************)
(* C8: no cell handles a failure: when a lookup or a division in a cell    *)
(* raises, the run is at the exception, no later statement of the cell     *)
(* has run or runs, and the names bound before the failure keep their      *)
(* values.                                                                 *)
(***************************************************************************)
NothingAfterFailure ==
  /\ err[2] = "C" =>
       /\ Len(ArtistsOf("C", "true")) = 0
       /\ Len(ArtistsOf("C", "forecast")) = it
       /\ \A j \in 1..Len(legends) : legends[j].cell # "C"
       /\ \A j \in 1..Len(titles) : titles[j].cell # "C"
       /\ Len(artists) > 0 => artists[Len(artists)].cell \in {"B", "C"}
  /\ err[2] = "B" =>
       /\ normalized_times = <<>>
       /\ cmap = NoCmap
       /\ cbar = NoCbar
       /\ \A j \in 1..Len(artists) : artists[j].cell # "B"

RaisedAndStopped == (err # <<>>) => (pc = "raised" /\ NothingAfterFailure)

NamesKeptOnFailure ==
  (err = <<>> /\ err' # <<>>) =>
    /\ UNCHANGED <<forecasts_AP01, normalized_times, cmap, c, GFS_keys,
                   forecast_path, true_path, it>>
    /\ UNCHANGED <<contourVars, axesVars, drawnVars>>
    /\ (ap' = ap) \/ (it < Len(GFS_keys) /\ ap' = GFS_keys[it + 1])

C8_FailurePropagates ==
  /\ [] RaisedAndStopped
  /\ [][pc # "raised"]_vars
  /\ [][NamesKeptOnFailure]_vars

C8_Witness ==
  /\ pc = "raised"
  /\ err = <<"KeyError", "C">>
  /\ it = 3
  /\ ap = "AP04"
  /\ forecast_path = Len(artists)

(***************************************************************************)
(* C10: the contour loop of the directional-label cell iterates through 18 *)
(* different timesteps, each taken at time index 12*x + 1.                 *)
(***************************************************************************)
C10_EighteenTimesteps ==
  Past("E_contour") =>
    LET drawn == ArtistsOf("E", "contour") IN
    /\ Len(drawn) = 18
    /\ \A j \in 1..Len(drawn) : drawn[j].t = 12 * (j - 1) + 1
    /\ \A j, k \in 1..Len(drawn) : j # k => drawn[j].t # drawn[k].t

(***************************************************************************)
(* C11: in the hand-picked-colours cell colorlist holds one colour for     *)
(* each of the 18 contours of the loop: its length is the number of        *)
(* iterations, every index colorlist[x] used is in range, and every        *)
(* colour of the list is used.                                             *)
(***************************************************************************)
C11_OneColourPerContour ==
  Past("G_contour") =>
    LET drawn == SelectSeq(ArtistsOf("G", "contour"), LAMBDA a : a.lw = Thin) IN
    /\ Len(drawn) = 18
    /\ Len(colorlist) = Len(drawn)
    /\ \A j \in 1..Len(drawn) :
         j <= Len(colorlist) /\ drawn[j].color = <<colorlist[j], 0>>
    /\ \A j \in 1..Len(colorlist) :
         \E k \in 1..Len(drawn) : drawn[k].color = <<colorlist[j], 0>>

(***************************************************************************)
(* C12 as stated: GFS_keys is the list of the AP## forecast keys for ##    *)
(* from 0 to 20.                                                           *)
(***************************************************************************)
KeysBound == Rank(pc) >= Rank("C_plot") \/ (pc = "raised" /\ err[2] = "C")

TwoDigits(v) == DigitChar(v \div 10) \o DigitChar(v % 10)

TwelfthIndices == {12 * k : k \in 0..18}

IndicesOf(cell) ==
  {ArtistsOf(cell, "contour")[j].t : j \in 1..Len(ArtistsOf(cell, "contour"))}

EveryTwelfth(cell) ==
  LET drawn == ArtistsOf(cell, "contour") IN
  /\ \A j \in 1..Len(drawn) : drawn[j].t % 12 = 0 /\ drawn[j].t = 12 * (j - 1)
  /\ Past(cell \o "_contour") =>
       /\ Len(drawn) = 19
       /\ IndicesOf(cell) = TwelfthIndices
       /\ Cardinality(IndicesOf(cell)) = 19

C13_EveryTwelfthTimestep ==
  /\ EveryTwelfth("D")
  /\ EveryTwelfth("F")
  /\ Past("F_cbar") =>
       /\ 12 * n = 228
       /\ \A t \in IndicesOf("F") : t + 12 <= 12 * n
       /\ \E t \in IndicesOf("F") : t + 12 = 12 * n
       /\ year_n = ((origin + 228) \div 12) + 1958

C13_Witness ==
  /\ pc = "F_ticks"
  /\ year_n = 1977
  /\ Len(ArtistsOf("D", "contour")) = 19
  /\ ArtistsOf("F", "contour")[19].t = 216

(***************************************************************************)
(* C14: in the temporal-colormapping loop c is the number of forecast      *)
(* lines already plotted at the start of every iteration, so the i-th      *)
(* initialization is drawn with entry i of the ListedColormap, the         *)
(* autumn_r colour of normalized_times[i]; c stays below the colormap      *)
(* length N while it is an index, and c = N when the loop ends.            *)
(***************************************************************************)
\* entry of the 256-entry autumn_r table at the fraction x
AutumnEntry(x) ==
  IF x[1] <= 0 THEN 0 ELSE IF x[1] >= x[2] THEN 255 ELSE (256 * x[1]) \div x[2]

C14_CounterIndexesColormap ==
  LET drawn == ArtistsOf("B", "forecast") IN
  /\ pc = "B_plot" =>
       /\ c = Len(drawn)
       /\ c = it
       /\ cmap.N = Len(forecasts_AP01)
       /\ c < cmap.N
  /\ (Past("B_cmap") /\ Position <= Rank("F_cmap")) =>
       \A j \in 1..Len(drawn) :
         /\ drawn[j].t = j
         /\ drawn[j].color = cmap.lut[j]
         /\ drawn[j].color = <<"autumn_r", AutumnEntry(normalized_times[j])>>
  /\ Past("B_plot") =>
       /\ c = Len(forecasts_AP01)
       /\ Len(drawn) = c

C14_Witness ==
  /\ pc = "B_plot"
  /\ c = 3
  /\ Len(forecasts_AP01) >= 5
  /\ Len(ArtistsOf("B", "forecast")) = 3
  /\ ArtistsOf("B", "forecast")[3].color # ArtistsOf("B", "forecast")[2].color

(***************************************************************************)
(* C15: in the temporal hurricane plot, when the N initializations are     *)
(* evenly spaced, the colorbar tick of initialization i sits at i/(N-1),   *)
(* within the i-th of the N equal segments [i/N, (i+1)/N] of the colorbar, *)
(* on the colour of forecast line i, for every tick index i of             *)
(* range(0, N, 4).                                                         *)
(***************************************************************************)
EvenlySpaced(ts) ==
  /\ Len(ts) >= 2
  /\ TimeDelta(ts[2], ts[1]) # 0
  /\ \A j \in 1..(Len(ts) - 1) :
       TimeDelta(ts[j + 1], ts[j]) = TimeDelta(ts[2], ts[1])

C15_TickWithinItsSegment ==
  (HurricaneTicksSet /\ EvenlySpaced(times)) =>
    LET N == Len(times) IN
    /\ Len(cbar.ticks) = (N + 3) \div 4
    /\ \A j \in 1..Len(cbar.ticks) :
         LET i  == 4 * (j - 1)
             tk == cbar.ticks[j]
         IN /\ tk[2] > 0
            /\ tk[1] * (N - 1) = i * tk[2]
            /\ i * tk[2] <= tk[1] * N
            /\ tk[1] * N <= (i + 1) * tk[2]
            /\ BoxColorAt(cbar, tk) = ArtistsOf("B", "forecast")[i + 1].color

C15_Witness ==
  /\ pc = "C_axes"
  /\ EvenlySpaced(times)
  /\ Len(times) = 9
  /\ Len(cbar.ticks) = 3
  /\ cbar.ticks[2][1] * 2 = cbar.ticks[2][2]

(***************************************************************************)
(* C16: in the single-member and all-members cells the legend has exactly  *)
(* two entries, the true path and one forecast line; the forecast handle   *)
(* is the line of the last loop iteration, which has the colour and line   *)
(* width of every other forecast line of that plot.                        *)
(***************************************************************************)
LegendOfLastLine(lg) ==
  LET fc == ArtistsOf(lg.cell, "forecast") IN
  /\ Len(lg.handles) = 2
  /\ Len(lg.labels) = 2
  /\ lg.labels[1] = "True Path"
  /\ \A h \in 1..2 : lg.handles[h] \in 1..Len(artists)
  /\ artists[lg.handles[1]].kind = "true"
  /\ artists[lg.handles[1]].cell = lg.cell
  /\ Len(fc) >= 1
  /\ artists[lg.handles[2]] = fc[Len(fc)]
  /\ artists[lg.handles[2]].t =
       (IF lg.cell = "A" THEN Len(forecasts_AP01) ELSE 20)
  /\ \A j \in 1..Len(fc) :
       /\ fc[j].color = artists[lg.handles[2]].color
       /\ fc[j].lw = artists[lg.handles[2]].lw

C16_LegendShowsLastForecast ==
  /\ \A k \in 1..Len(legends) :
       legends[k].cell \in {"A", "C"} => LegendOfLastLine(legends[k])
  /\ Past("A_legend") => \E k \in 1..Len(legends) : legends[k].cell = "A"
  /\ Past("C_legend") => \E k \in 1..Len(legends) : legends[k].cell = "C"

C16_Witness ==
  /\ pc = "open"
  /\ Len(forecasts_AP01) >= 3
  /\ \E k \in 1..Len(legends) : legends[k].cell = "A"
  /\ \E k \in 1..Len(legends) :
       legends[k].cell = "C" /\ artists[legends[k].handles[2]].key = "AP20"

====
